---------------------------- MODULE Spec2Model ----------------------------
(***************************************************************************)
(* Real-time navigation backend (navigation/backend/websocket.py and       *)
(* routing.py): one handle_location_ws coroutine per client connection,    *)
(* all sharing the singleton nav_session and the singleton manager.        *)
(*                                                                         *)
(* asyncio runs the handlers on one event loop: the code between two       *)
(* awaits of a handler is atomic, and every await (ws.accept,              *)
(* ws.receive_text, ws.send_text, fetch_route) is a point where another    *)
(* handler may run.  Each action below is one such segment of one handler. *)
(*                                                                         *)
(* Coordinates are integers in units of 10/111000 degree, so that the      *)
(* "d * 111_000" of min_distance_to_route is "d * 10" here.  Distances are *)
(* kept squared, as exact fractions <<numerator, denominator>>.            *)
(* Python's None is the empty sequence <<>>; an optional dict d is <<d>>.  *)
(***************************************************************************)
EXTENDS Integers, Sequences, FiniteSets, TLC

VARIABLES
    nav_session,      \* the singleton NavigationSession
    active,           \* manager._active, a list of connections
    hs,               \* per handler: its position and its local variables
    open,             \* per connection: the client's socket is still open
    now,              \* time.time(), in seconds
    lastRerouteCall,  \* history: <<t>>, t when the last reroute call of this
                      \* navigation (since the last start_nav or stop_nav) began
    slow,             \* the connections whose client has stopped reading: a
                      \* send_text to one of them never returns
    hour,             \* datetime.now().hour of the last _apply_traffic call
    traffic,          \* what that call returned
    geo,              \* the last deviation check done on its own: its
                      \* arguments and what it returned
    hav,              \* the last haversine call: its arguments and results
    resp              \* the response of the last GET /route request

vars == <<nav_session, active, hs, open, now, lastRerouteCall, slow, hour, traffic,
          geo, hav, resp>>

-----------------------------------------------------------------------------
(* Bounds and inputs *)

Handlers == {1, 2}

\* time.time() at start-up; last_recalc starts at 0, far in the past
StartTime == 6
\* the clock advances TickStep seconds at a time, Horizon seconds in all
TickStep == 5
Horizon == 10
MaxTime == StartTime + Horizon
LongHorizon == 20

None == <<>>

\* (lat, lng) pairs
P0 == <<0, 0>>
P1 == <<6, 5>>
D1 == <<0, 10>>
D2 == <<0, -10>>
Samples == {P0, P1}
Starts == {P0}
Dests == {D1, D2}
\* how a fetch_route call can fail: ValueError("OSRM error: NoRoute"), or
\* a transport error / timeout / HTTP status raised by httpx
Errors == {"NoRoute", "Unavailable"}

-----------------------------------------------------------------------------
(* routing.py *)

DEVIATION_THRESHOLD_M == 50

\* metres per coordinate unit: the 111_000 metres per degree of line 102
MetresPerUnit == 10

\* Angles are whole degrees, multiples of 60.  Sin2Half(deg) is
\* 4 * sin(radians(deg) / 2) ** 2 and Cos2(deg) is 2 * cos(radians(deg)).
Sin2Half(deg) ==
    LET r == deg % 360
    IN  IF r = 0 THEN 0
        ELSE IF r = 60 \/ r = 300 THEN 1
        ELSE IF r = 120 \/ r = 240 THEN 3
        ELSE 4
Cos2(deg) == IF deg % 360 = 0 THEN 2 ELSE 1

\* R * 2 * atan2(sqrt(a), sqrt(1 - a)) in whole metres, R = 6_371_000, for
\* a = 0/16, 1/16, ..., 16/16
ArcMetres ==
    <<0, 3219652, 4604540, 5706280, 6671696, 7558552,
      8397717, 9209080, 10007543, 10806007, 11617369, 12456535,
      13343391, 14308806, 15410547, 16795435, 20015087>>

\* haversine taking the cosine of the first latitude twice
haversine_FirstLatitudeTwice(lat1, lon1, lat2, lon2) ==
    LET a16 == 4 * Sin2Half(lat2 - lat1)
               + Cos2(lat1) * Cos2(lat1) * Sin2Half(lon2 - lon1)
    IN  ArcMetres[a16 + 1]

\* great-circle distance in metres; a16 is 16 * a of line 73
haversine(lat1, lon1, lat2, lon2) ==
    LET a16 == 4 * Sin2Half(lat2 - lat1)
               + Cos2(lat1) * Cos2(lat2) * Sin2Half(lon2 - lon1)
    IN  ArcMetres[a16 + 1]

\* the distance measured to the segment's first end, without the projection
_point_to_segment_ToFirstEnd(px, py, ax, ay, bx, by) ==
    <<(px - ax) * (px - ax) + (py - ay) * (py - ay), 1>>

\* squared distance (a fraction, in squared coordinate units) from P to
\* segment AB.  With t = num / den strictly between 0 and 1 the projection is
\* A + t * (dx, dy), and |P - proj|^2 = |P - A|^2 - num^2 / den.
_point_to_segment(px, py, ax, ay, bx, by) ==
    LET dx == bx - ax
        dy == by - ay
        num == (px - ax) * dx + (py - ay) * dy
        den == dx * dx + dy * dy
        pa2 == (px - ax) * (px - ax) + (py - ay) * (py - ay)
        pb2 == (px - bx) * (px - bx) + (py - by) * (py - by)
    IN  IF dx = 0 /\ dy = 0 THEN <<pa2, 1>>
        ELSE IF num <= 0 THEN <<pa2, 1>>          \* t = max(0, ...) = 0
        ELSE IF num >= den THEN <<pb2, 1>>        \* t = min(1, ...) = 1
        ELSE <<pa2 * den - num * num, den>>

\* float("inf") is <<1, 0>>
Inf == <<1, 0>>
FracLess(x, y) ==
    IF x[2] = 0 THEN FALSE
    ELSE IF y[2] = 0 THEN TRUE
    ELSE x[1] * y[2] < y[1] * x[2]
FracMin(x, y) == IF FracLess(y, x) THEN y ELSE x

RECURSIVE MinDistFrom(_, _, _, _, _)
MinDistFrom(lat, lng, geometry_coords, i, best) ==
    IF i > Len(geometry_coords) - 1 THEN best
    ELSE LET a == geometry_coords[i]
             b == geometry_coords[i + 1]
             d == _point_to_segment(lng, lat, a[1], a[2], b[1], b[2])
             d_m == <<d[1] * MetresPerUnit * MetresPerUnit, d[2]>>
         IN  MinDistFrom(lat, lng, geometry_coords, i + 1, FracMin(best, d_m))

\* the distance to the polyline's first segment alone
min_distance_to_route_FirstSegment(lat, lng, geometry_coords) ==
    IF Len(geometry_coords) < 2 THEN Inf
    ELSE MinDistFrom(lat, lng, SubSeq(geometry_coords, 1, 2), 1, Inf)

\* squared minimum distance in metres from the point to the polyline of
\* [lon, lat] pairs
min_distance_to_route(lat, lng, geometry_coords) ==
    MinDistFrom(lat, lng, geometry_coords, 1, Inf)

\* the deviation test with the threshold itself counted as off the route
is_off_route_AtThreshold(lat, lng, geometry_coords) ==
    LET d == min_distance_to_route(lat, lng, geometry_coords)
    IN  ~FracLess(d, <<DEVIATION_THRESHOLD_M * DEVIATION_THRESHOLD_M, 1>>)

is_off_route(lat, lng, geometry_coords) ==
    LET d == min_distance_to_route(lat, lng, geometry_coords)
    IN  FracLess(<<DEVIATION_THRESHOLD_M * DEVIATION_THRESHOLD_M, 1>>, d)

\* datetime.now().hour, and the raw durations in seconds of the routes the
\* engine returns (multiples of 6, so that the division by every multiplier
\* is exact and round(..., 1) changes nothing)
Hours == 0 .. 23
Durations == {60, 120, 180, 240, 300}

\* the rush hours running through ten o'clock
_traffic_multiplier_RushThroughTen(hr) ==
    IF 8 <= hr /\ hr <= 10 THEN 6
    ELSE IF 17 <= hr /\ hr < 20 THEN 5
    ELSE IF hr >= 22 \/ hr < 5 THEN 12
    ELSE 10

\* the speed multiplier at hour hr, in tenths (0.6, 0.5, 1.2, 1.0)
_traffic_multiplier(hr) ==
    IF 8 <= hr /\ hr < 10 THEN 6
    ELSE IF 17 <= hr /\ hr < 20 THEN 5
    ELSE IF hr >= 22 \/ hr < 5 THEN 12
    ELSE 10

\* _apply_traffic with the first threshold inclusive
_apply_traffic_HeavyAtThreshold(duration_s, hr) ==
    LET mult == _traffic_multiplier(hr)
        adjusted == (duration_s * 10) \div mult
    IN  [raw_duration_s |-> duration_s,
         adjusted_duration_s |-> adjusted,
         traffic_multiplier |-> mult,
         traffic_label |-> IF mult <= 6 THEN "heavy"
                           ELSE IF mult < 10 THEN "moderate"
                           ELSE IF mult <= 10 THEN "light"
                           ELSE "free-flow"]

\* _apply_traffic(duration_s) called at hour hr
_apply_traffic(duration_s, hr) ==
    LET mult == _traffic_multiplier(hr)
        adjusted == (duration_s * 10) \div mult
    IN  [raw_duration_s |-> duration_s,
         adjusted_duration_s |-> adjusted,
         traffic_multiplier |-> mult,
         traffic_label |-> IF mult < 6 THEN "heavy"
                           ELSE IF mult < 10 THEN "moderate"
                           ELSE IF mult <= 10 THEN "light"
                           ELSE "free-flow"]

\* The engine's answer to a successful fetch_route call, n routes long: the
\* primary route runs straight from the start to the end, an alternative
\* passes through the point one unit north of the start.
fetch_route(start_lat, start_lng, end_lat, end_lng, n) ==
    LET primary == [geometry |-> [coordinates |->
                        << <<start_lng, start_lat>>, <<end_lng, end_lat>> >>],
                    is_alternative |-> FALSE]
        alt     == [geometry |-> [coordinates |->
                        << <<start_lng, start_lat>>, <<start_lng, start_lat + 1>>,
                           <<end_lng, end_lat>> >>],
                    is_alternative |-> TRUE]
    IN  [routes |-> SubSeq(<<primary, alt>>, 1, n),
         waypoints |-> << <<start_lng, start_lat>>, <<end_lng, end_lat>> >>]

\* the engine returning alternatives whether or not they were asked for
RouteCounts_AlternativesAlways(alternatives) == {1, 2}

\* number of routes the engine may return for a call: an answer with code Ok
\* holds the primary route, and alternatives only when they were asked for
RouteCounts(alternatives) == IF alternatives THEN {1, 2} ELSE {1}

\* the same, with the answer whose code is Ok and whose route list is empty:
\* fetch_route returns whatever list the engine sent
RouteCountsOrNone(alternatives) == {0} \cup RouteCounts(alternatives)

-----------------------------------------------------------------------------
(* websocket.py: NavigationSession *)

NewSession ==
    [destination |-> None, route_geometry |-> None,
     route_data |-> None, last_recalc |-> 0]

set_route(s, route_data, t) ==
    [s EXCEPT !.route_data = <<route_data>>,
              !.route_geometry =
                  IF Len(route_data.routes) > 0
                  THEN route_data.routes[1].geometry.coordinates
                  ELSE @,
              !.last_recalc = t]

\* clear() forgetting route_data
clear_KeepsRouteData(s) ==
    [s EXCEPT !.destination = None, !.route_geometry = None]

clear(s) ==
    [s EXCEPT !.destination = None, !.route_geometry = None, !.route_data = None]

RECALC_COOLDOWN_S == 5

\* the deviation check not looking at the destination
ShouldReroute_IgnoresDestination(s, lat, lng, t) ==
    /\ s.route_geometry # <<>>
    /\ is_off_route(lat, lng, s.route_geometry)
    /\ (t - s.last_recalc) > RECALC_COOLDOWN_S

\* the deviation check letting a call begin when the cooldown has just run out
ShouldReroute_AtCooldown(s, lat, lng, t) ==
    /\ s.route_geometry # <<>>
    /\ s.destination # None
    /\ is_off_route(lat, lng, s.route_geometry)
    /\ (t - s.last_recalc) >= RECALC_COOLDOWN_S

\* the condition of the deviation check, lines 140-145
ShouldReroute(s, lat, lng, t) ==
    /\ s.route_geometry # <<>>
    /\ s.destination # None
    /\ is_off_route(lat, lng, s.route_geometry)
    /\ (t - s.last_recalc) > RECALC_COOLDOWN_S

-----------------------------------------------------------------------------
(* websocket.py: ConnectionManager and the handlers' local state *)

NoMsg == [type |-> "", reason |-> "", route |-> None]

\* A handler's position (pc) and local variables; Local(p) is a handler at p
\* with no local bound.  printed is what the handler has printed since it last
\* called receive_text (lines 156 and 158).  idle0 is history: whether the
\* session had neither destination nor route when the handler's start_nav
\* message was read.  snap and sent are history of the broadcast in progress:
\* the connections in the list when it began, and those whose send_text it
\* has called and seen end.
Local(p) ==
    [pc |-> p, lat_lng |-> None, dest |-> None, start |-> None,
     bmsg |-> NoMsg, bidx |-> 0, bto |-> 0, dead |-> <<>>, detail |-> "",
     printed |-> None, idle0 |-> FALSE, snap |-> {}, sent |-> {}]

Range(s) == {s[i] : i \in 1 .. Len(s)}

\* list.remove(x): the list without its first x
Remove(s, x) ==
    LET i == CHOOSE j \in 1 .. Len(s) : s[j] = x /\ \A k \in 1 .. j - 1 : s[k] # x
    IN  SubSeq(s, 1, i - 1) \o SubSeq(s, i + 1, Len(s))

\* "for ws in dead: self._active.remove(ws)": the list afterwards, and whether
\* every remove found its element (list.remove raises ValueError otherwise,
\* which ends the loop with the earlier removals done)
RECURSIVE Prune(_, _)
Prune(act, dead) ==
    IF dead = <<>> THEN [act |-> act, ok |-> TRUE]
    ELSE IF Head(dead) \in Range(act)
    THEN Prune(Remove(act, Head(dead)), Tail(dead))
    ELSE [act |-> act, ok |-> FALSE]

\* The handler's code after its broadcast of msg has returned, up to the next
\* await: for a location message the deviation check (lines 140-149), for
\* the others the return to receive_text.
AfterBroadcast(l, msg, sess, t) ==
    IF msg.type = "location" /\ ShouldReroute(sess, l.lat_lng[1], l.lat_lng[2], t)
    THEN [Local("reroute_fetch") EXCEPT !.lat_lng = l.lat_lng,
                                        !.dest = sess.destination]
    ELSE IF msg.type = "reroute"
    THEN [Local("recv") EXCEPT !.printed = <<"rerouted">>]    \* line 156
    ELSE Local("recv")

\* The handler's code after its broadcast of msg raised ValueError
BroadcastRaised(l, msg) ==
    IF msg.type = "reroute"                                   \* lines 157-158
    THEN [Local("recv") EXCEPT !.printed = <<"reroute failed", "ValueError">>]
    ELSE IF msg.type = "route_update"
    THEN [Local("reply") EXCEPT !.detail = "ValueError"]      \* line 174
    ELSE Local("crashed")                                     \* not caught

\* manager.broadcast from the point where the for loop asks its iterator for
\* the element after index idx, up to the handler's next await: the local
\* state and the list afterwards.
Advance(l, msg, idx, dead, act, sess, t) ==
    IF idx + 1 <= Len(act)
    THEN [l |-> [l EXCEPT !.pc = "bsend", !.bmsg = msg, !.bidx = idx + 1,
                          !.bto = act[idx + 1], !.dead = dead,
                          !.snap = IF idx = 0 THEN Range(act) ELSE l.snap,
                          !.sent = IF idx = 0 THEN {} ELSE l.sent \cup {l.bto}],
          act |-> act]
    ELSE LET p == Prune(act, dead)
         IN  [l |-> IF p.ok THEN AfterBroadcast(l, msg, sess, t)
                    ELSE BroadcastRaised(l, msg),
              act |-> p.act]

\* the history of reroute calls: a call that begins is recorded
CallTime(l, prev, t) == IF l.pc = "reroute_fetch" THEN <<t>> ELSE prev

-----------------------------------------------------------------------------
(* Initial state: after the module is imported, before any client connects *)

Init ==
    /\ nav_session = NewSession
    /\ active = <<>>
    /\ hs = [h \in Handlers |-> Local("new")]
    /\ open = [h \in Handlers |-> TRUE]
    /\ now = StartTime
    /\ lastRerouteCall = None
    /\ slow = {}
    /\ hour = 0
    /\ traffic = None
    /\ geo = None
    /\ hav = None
    /\ resp = None

-----------------------------------------------------------------------------
(* Environment *)

Tick ==
    /\ now + TickStep <= MaxTime
    /\ now' = now + TickStep
    /\ UNCHANGED <<nav_session, active, hs, open, lastRerouteCall>>
    /\ UNCHANGED <<slow, hour, traffic, geo, hav, resp>>

\* the clock going on long enough for a fetch_route call to take time
TickLong ==
    /\ now + TickStep <= StartTime + LongHorizon
    /\ now' = now + TickStep
    /\ UNCHANGED <<nav_session, active, hs, open, lastRerouteCall>>
    /\ UNCHANGED <<slow, hour, traffic, geo, hav, resp>>

\* the client of connection c goes away (a client that has stopped reading
\* stays connected)
ClientClose(c) ==
    /\ hs[c].pc # "new"
    /\ open[c]
    /\ c \notin slow
    /\ open' = [open EXCEPT ![c] = FALSE]
    /\ UNCHANGED <<nav_session, active, hs, now, lastRerouteCall>>
    /\ UNCHANGED <<slow, hour, traffic, geo, hav, resp>>

\* the client of connection c stops reading what the server sends, for good
ClientStall(c) ==
    /\ hs[c].pc # "new"
    /\ open[c]
    /\ c \notin slow
    /\ slow' = slow \cup {c}
    /\ UNCHANGED <<nav_session, active, hs, open, now, lastRerouteCall>>
    /\ UNCHANGED <<hour, traffic, geo, hav, resp>>

\* the coordinates the deviation check is tried on, and the polylines of two
\* and of three [lon, lat] points over them
Coords == {0, 3, 4, 8}
GridPoints == Coords \X Coords
Polylines == [1 .. 2 -> GridPoints] \cup [1 .. 3 -> GridPoints]

\* the polylines too short to have a segment: no point, one point
ShortPolylines == {<<>>} \cup [1 .. 1 -> GridPoints]

\* a sample and a route geometry the deviation check has yet to be done on
DeviationInput(lat, lng, geometry_coords) ==
    [lat |-> lat, lng |-> lng, geometry_coords |-> geometry_coords,
     done |-> FALSE, d |-> Inf, off |-> FALSE]

\* the deviation check of lines 141-145 on the sample and the geometry of geo
CheckDeviation ==
    /\ geo # None
    /\ ~geo[1].done
    /\ LET lat == geo[1].lat
           lng == geo[1].lng
           geometry_coords == geo[1].geometry_coords
       IN  geo' = <<[geo[1] EXCEPT
                       !.done = TRUE,
                       !.d = min_distance_to_route(lat, lng, geometry_coords),
                       !.off = is_off_route(lat, lng, geometry_coords)]>>
    /\ UNCHANGED <<nav_session, active, hs, open, now, lastRerouteCall, slow>>
    /\ UNCHANGED <<hour, traffic, hav, resp>>

\* the coordinates haversine is tried on: <<lat, lon>> pairs
Latitudes == {-60, 0, 60}
Longitudes == {-120, -60, 0, 60, 120, 180}
Places == Latitudes \X Longitudes

\* two places whose distances have yet to be measured
HaversineInput(A, B) ==
    [A |-> A, B |-> B, done |-> FALSE, ab |-> 0, ba |-> 0, aa |-> 0]

\* haversine called from A to B, from B to A and from A to A
CallHaversine ==
    /\ hav # None
    /\ ~hav[1].done
    /\ LET A == hav[1].A
           B == hav[1].B
       IN  hav' = <<[hav[1] EXCEPT
                       !.done = TRUE,
                       !.ab = haversine(A[1], A[2], B[1], B[2]),
                       !.ba = haversine(B[1], B[2], A[1], A[2]),
                       !.aa = haversine(A[1], A[2], A[1], A[2])]>>
    /\ UNCHANGED <<nav_session, active, hs, open, now, lastRerouteCall, slow>>
    /\ UNCHANGED <<hour, traffic, geo, resp>>

\* fetch_route annotates a route of raw duration duration_s at hour hr
ApplyTraffic(hr, duration_s) ==
    /\ hour' = hr
    /\ traffic' = <<_apply_traffic(duration_s, hr)>>
    /\ UNCHANGED <<nav_session, active, hs, open, now, lastRerouteCall, slow>>
    /\ UNCHANGED <<geo, hav, resp>>

-----------------------------------------------------------------------------
(* handle_location_ws *)

\* line 118 and manager.connect
Connect(h) ==
    /\ hs[h].pc = "new"
    /\ active' = Append(active, h)
    /\ hs' = [hs EXCEPT ![h] = Local("recv")]
    /\ UNCHANGED <<nav_session, open, now, lastRerouteCall>>
    /\ UNCHANGED <<slow, hour, traffic, geo, hav, resp>>

\* receive_text raises WebSocketDisconnect: lines 185-186, manager.disconnect
RecvDisconnect(h) ==
    /\ hs[h].pc = "recv"
    /\ ~open[h]
    /\ IF h \in Range(active)
       THEN /\ active' = Remove(active, h)
            /\ hs' = [hs EXCEPT ![h] = Local("closed")]
       ELSE /\ active' = active
            /\ hs' = [hs EXCEPT ![h] = Local("crashed")]   \* ValueError
    /\ UNCHANGED <<nav_session, open, now, lastRerouteCall>>
    /\ UNCHANGED <<slow, hour, traffic, geo, hav, resp>>

\* lines 122-126
RecvInvalidJSON(h) ==
    /\ hs[h].pc = "recv"
    /\ hs' = [hs EXCEPT ![h] = [Local("reply") EXCEPT !.detail = "invalid JSON"]]
    /\ UNCHANGED <<nav_session, active, open, now, lastRerouteCall>>
    /\ UNCHANGED <<slow, hour, traffic, geo, hav, resp>>

\* lines 123-128: a message that is JSON but not an object (a list, a
\* number, a string, null): json.loads returns it and msg.get raises
\* AttributeError, which nothing catches
RecvNotObject(h) ==
    /\ hs[h].pc = "recv"
    /\ hs' = [hs EXCEPT ![h] = Local("crashed")]
    /\ UNCHANGED <<nav_session, active, open, now, lastRerouteCall>>
    /\ UNCHANGED <<slow, hour, traffic, geo, hav, resp>>

\* lines 182-183
RecvUnknown(h) ==
    /\ hs[h].pc = "recv"
    /\ hs' = [hs EXCEPT ![h] = [Local("reply") EXCEPT !.detail = "unknown type"]]
    /\ UNCHANGED <<nav_session, active, open, now, lastRerouteCall>>
    /\ UNCHANGED <<slow, hour, traffic, geo, hav, resp>>

\* lines 131-134: a location message without lat or lng
RecvLocationMissing(h) ==
    /\ hs[h].pc = "recv"
    /\ hs' = [hs EXCEPT ![h] = Local("recv")]
    /\ UNCHANGED <<nav_session, active, open, now, lastRerouteCall>>
    /\ UNCHANGED <<slow, hour, traffic, geo, hav, resp>>

\* lines 131-149: a location message, up to the first await
RecvLocation(h, pt) ==
    /\ hs[h].pc = "recv"
    /\ LET l == [Local("recv") EXCEPT !.lat_lng = pt]
           r == Advance(l, [type |-> "location", reason |-> "", route |-> None], 0, <<>>,
                        active, nav_session, now)
       IN  /\ hs' = [hs EXCEPT ![h] = r.l]
           /\ active' = r.act
           /\ lastRerouteCall' = CallTime(r.l, lastRerouteCall, now)
    /\ UNCHANGED <<nav_session, open, now>>
    /\ UNCHANGED <<slow, hour, traffic, geo, hav, resp>>

\* lines 161-168: a start_nav message with a coordinate missing
RecvStartNavMissing(h) ==
    /\ hs[h].pc = "recv"
    /\ hs' = [hs EXCEPT ![h] =
                 [Local("reply") EXCEPT !.detail = "missing coordinates"]]
    /\ UNCHANGED <<nav_session, active, open, now, lastRerouteCall>>
    /\ UNCHANGED <<slow, hour, traffic, geo, hav, resp>>

\* lines 161-171: a start_nav message, up to the await of fetch_route
RecvStartNav(h, s, d) ==
    /\ hs[h].pc = "recv"
    /\ nav_session' = [nav_session EXCEPT !.destination = d]
    /\ hs' = [hs EXCEPT ![h] =
                 [Local("start_fetch") EXCEPT
                     !.start = s, !.dest = d,
                     !.idle0 = (nav_session.destination = None
                                /\ nav_session.route_geometry = None
                                /\ nav_session.route_data = None)]]
    /\ lastRerouteCall' = None
    /\ UNCHANGED <<active, open, now>>
    /\ UNCHANGED <<slow, hour, traffic, geo, hav, resp>>

\* start_nav storing the route without announcing it
StartFetchOk_NoBroadcast(h, n) ==
    /\ hs[h].pc = "start_fetch"
    /\ LET l == hs[h]
           route == fetch_route(l.start[1], l.start[2], l.dest[1], l.dest[2], n)
       IN  /\ nav_session' = set_route(nav_session, route, now)
           /\ hs' = [hs EXCEPT ![h] = Local("recv")]
    /\ UNCHANGED <<active, open, now, lastRerouteCall>>
    /\ UNCHANGED <<slow, hour, traffic, geo, hav, resp>>

\* lines 171-173: fetch_route returned n routes
StartFetchOk(h, n) ==
    /\ hs[h].pc = "start_fetch"
    /\ LET l == hs[h]
           route == fetch_route(l.start[1], l.start[2], l.dest[1], l.dest[2], n)
           sess == set_route(nav_session, route, now)
           r == Advance(Local("recv"), [type |-> "route_update", reason |-> "",
                                         route |-> <<route>>],
                        0, <<>>, active, sess, now)
       IN  /\ nav_session' = sess
           /\ hs' = [hs EXCEPT ![h] = r.l]
           /\ active' = r.act
    /\ UNCHANGED <<open, now, lastRerouteCall>>
    /\ UNCHANGED <<slow, hour, traffic, geo, hav, resp>>

\* lines 174-175: fetch_route raised
StartFetchFail(h, e) ==
    /\ hs[h].pc = "start_fetch"
    /\ hs' = [hs EXCEPT ![h] =
                 [Local("reply") EXCEPT !.detail = e, !.idle0 = hs[h].idle0]]
    /\ UNCHANGED <<nav_session, active, open, now, lastRerouteCall>>
    /\ UNCHANGED <<slow, hour, traffic, geo, hav, resp>>

\* the reroute storing its result but leaving the geometry the deviation
\* check reads as it was
RerouteFetchOk_KeepsOldGeometry(h, n) ==
    /\ hs[h].pc = "reroute_fetch"
    /\ LET l == hs[h]
           new_route == fetch_route(l.lat_lng[1], l.lat_lng[2],
                                    l.dest[1], l.dest[2], n)
           sess == [nav_session EXCEPT !.route_data = <<new_route>>,
                                       !.last_recalc = now]
           r == Advance(Local("recv"), [type |-> "reroute", reason |-> "off_route",
                                         route |-> <<new_route>>],
                        0, <<>>, active, sess, now)
       IN  /\ nav_session' = sess
           /\ hs' = [hs EXCEPT ![h] = r.l]
           /\ active' = r.act
    /\ UNCHANGED <<open, now, lastRerouteCall>>
    /\ UNCHANGED <<slow, hour, traffic, geo, hav, resp>>

\* lines 149-156: the reroute's fetch_route returned n routes
RerouteFetchOk(h, n) ==
    /\ hs[h].pc = "reroute_fetch"
    /\ LET l == hs[h]
           new_route == fetch_route(l.lat_lng[1], l.lat_lng[2],
                                    l.dest[1], l.dest[2], n)
           sess == set_route(nav_session, new_route, now)
           r == Advance(Local("recv"), [type |-> "reroute", reason |-> "off_route",
                                         route |-> <<new_route>>],
                        0, <<>>, active, sess, now)
       IN  /\ nav_session' = sess
           /\ hs' = [hs EXCEPT ![h] = r.l]
           /\ active' = r.act
    /\ UNCHANGED <<open, now, lastRerouteCall>>
    /\ UNCHANGED <<slow, hour, traffic, geo, hav, resp>>

\* the except branch dropping the route it could not replace
RerouteFetchFail_DropsRoute(h, e) ==
    /\ hs[h].pc = "reroute_fetch"
    /\ hs' = [hs EXCEPT ![h] =
                 [Local("recv") EXCEPT !.printed = <<"reroute failed", e>>]]
    /\ nav_session' = [nav_session EXCEPT !.route_geometry = None,
                                          !.route_data = None]
    /\ UNCHANGED <<active, open, now, lastRerouteCall>>
    /\ UNCHANGED <<slow, hour, traffic, geo, hav, resp>>

\* lines 157-158: the reroute's fetch_route raised; the error is printed
RerouteFetchFail(h, e) ==
    /\ hs[h].pc = "reroute_fetch"
    /\ hs' = [hs EXCEPT ![h] =
                 [Local("recv") EXCEPT !.printed = <<"reroute failed", e>>]]
    /\ UNCHANGED <<nav_session, active, open, now, lastRerouteCall>>
    /\ UNCHANGED <<slow, hour, traffic, geo, hav, resp>>

\* stop_nav answering "not navigating" when there is nothing to stop
RecvStopNav_ErrorWhenIdle(h) ==
    /\ hs[h].pc = "recv"
    /\ IF nav_session.destination = None
       THEN /\ hs' = [hs EXCEPT ![h] =
                        [Local("reply") EXCEPT !.detail = "not navigating"]]
            /\ UNCHANGED <<nav_session, active>>
       ELSE LET sess == clear(nav_session)
                r == Advance(Local("recv"),
                             [type |-> "nav_stopped", reason |-> "", route |-> None],
                             0, <<>>, active, sess, now)
            IN  /\ nav_session' = sess
                /\ hs' = [hs EXCEPT ![h] = r.l]
                /\ active' = r.act
    /\ lastRerouteCall' = None
    /\ UNCHANGED <<open, now>>
    /\ UNCHANGED <<slow, hour, traffic, geo, hav, resp>>

\* lines 178-180
RecvStopNav(h) ==
    /\ hs[h].pc = "recv"
    /\ LET sess == clear(nav_session)
           r == Advance(Local("recv"), [type |-> "nav_stopped", reason |-> "", route |-> None],
                        0, <<>>, active, sess, now)
       IN  /\ nav_session' = sess
           /\ hs' = [hs EXCEPT ![h] = r.l]
           /\ active' = r.act
    /\ lastRerouteCall' = None
    /\ UNCHANGED <<open, now>>
    /\ UNCHANGED <<slow, hour, traffic, geo, hav, resp>>

\* manager.broadcast, lines 43-49: the send to hs[h].bto has ended, by
\* returning (the client is there) or by raising (it is gone); the loop goes
\* on to the next connection or ends, and the handler runs to its next await.
\* The await has no timeout: a send to a client that has stopped reading
\* does not end.
BroadcastSend(h) ==
    /\ hs[h].pc = "bsend"
    /\ hs[h].bto \notin slow
    /\ LET l == hs[h]
           dead == IF open[l.bto] THEN l.dead ELSE Append(l.dead, l.bto)
           r == Advance(l, l.bmsg, l.bidx, dead, active, nav_session, now)
       IN  /\ hs' = [hs EXCEPT ![h] = r.l]
           /\ active' = r.act
           /\ lastRerouteCall' = CallTime(r.l, lastRerouteCall, now)
    /\ UNCHANGED <<nav_session, open, now>>
    /\ UNCHANGED <<slow, hour, traffic, geo, hav, resp>>

\* the send of an error reply to the handler's own connection has ended
ReplySent(h) ==
    /\ hs[h].pc = "reply"
    /\ open[h]
    /\ h \notin slow
    /\ hs' = [hs EXCEPT ![h] = Local("recv")]
    /\ UNCHANGED <<nav_session, active, open, now, lastRerouteCall>>
    /\ UNCHANGED <<slow, hour, traffic, geo, hav, resp>>

\* the send of an error reply raised: WebSocketDisconnect reaches line 185,
\* any other exception ends the handler
ReplyFailed(h) ==
    /\ hs[h].pc = "reply"
    /\ ~open[h]
    /\ \/ /\ h \in Range(active)
          /\ active' = Remove(active, h)
          /\ hs' = [hs EXCEPT ![h] = Local("closed")]
       \/ /\ active' = active
          /\ hs' = [hs EXCEPT ![h] = Local("crashed")]
    /\ UNCHANGED <<nav_session, open, now, lastRerouteCall>>
    /\ UNCHANGED <<slow, hour, traffic, geo, hav, resp>>

-----------------------------------------------------------------------------
(* main.py: GET /route *)

\* the one-shot query storing what it fetched in the shared session
get_route_Ok_SetsRoute(s, d, alternatives, n) ==
    /\ n \in RouteCounts(alternatives)
    /\ resp' = <<fetch_route(s[1], s[2], d[1], d[2], n)>>
    /\ nav_session' = set_route(nav_session, fetch_route(s[1], s[2], d[1], d[2], n), now)
    /\ UNCHANGED <<active, hs, open, now, lastRerouteCall>>
    /\ UNCHANGED <<slow, hour, traffic, geo, hav>>

\* lines 85-86: fetch_route returned n routes, which are the response
get_route_Ok(s, d, alternatives, n) ==
    /\ n \in RouteCounts(alternatives)
    /\ resp' = <<fetch_route(s[1], s[2], d[1], d[2], n)>>
    /\ UNCHANGED <<nav_session, active, hs, open, now, lastRerouteCall>>
    /\ UNCHANGED <<slow, hour, traffic, geo, hav>>

\* lines 87-90: fetch_route raised; ValueError (the engine's answer is not
\* Ok) is reported as it is, anything else as "Routing failed: ..."
get_route_Fail(e) ==
    /\ resp' = <<[error |-> IF e = "NoRoute" THEN <<e>>
                            ELSE <<"Routing failed", e>>]>>
    /\ UNCHANGED <<nav_session, active, hs, open, now, lastRerouteCall>>
    /\ UNCHANGED <<slow, hour, traffic, geo, hav>>

Next ==
    \/ Tick
    \/ \E c \in Handlers : ClientClose(c)
    \/ \E h \in Handlers : Connect(h)
    \/ \E h \in Handlers : RecvDisconnect(h)
    \/ \E h \in Handlers : RecvInvalidJSON(h)
    \/ \E h \in Handlers : RecvUnknown(h)
    \/ \E h \in Handlers : RecvLocationMissing(h)
    \/ \E h \in Handlers, pt \in Samples : RecvLocation(h, pt)
    \/ \E h \in Handlers : RecvStartNavMissing(h)
    \/ \E h \in Handlers, s \in Starts, d \in Dests : RecvStartNav(h, s, d)
    \/ \E h \in Handlers, n \in RouteCounts(TRUE) : StartFetchOk(h, n)
    \/ \E h \in Handlers, e \in Errors : StartFetchFail(h, e)
    \/ \E h \in Handlers, n \in RouteCounts(FALSE) : RerouteFetchOk(h, n)
    \/ \E h \in Handlers, e \in Errors : RerouteFetchFail(h, e)
    \/ \E h \in Handlers : RecvStopNav(h)
    \/ \E h \in Handlers : BroadcastSend(h)
    \/ \E h \in Handlers : ReplySent(h)
    \/ \E h \in Handlers : ReplyFailed(h)

Spec == Init /\ [][Next]_vars

\* The connection manager with a client that stops reading: an Idle session,
\* handlers that relay location samples and stop_nav.  The event loop resumes
\* a handler whose send has ended, hence the fairness of BroadcastSend.
NextSlow ==
    \/ \E c \in Handlers : ClientStall(c)
    \/ \E c \in Handlers : ClientClose(c)
    \/ \E h \in Handlers : Connect(h)
    \/ \E h \in Handlers : RecvDisconnect(h)
    \/ \E h \in Handlers : RecvLocation(h, P0)
    \/ \E h \in Handlers : RecvStopNav(h)
    \/ \E h \in Handlers : BroadcastSend(h)

SpecSlow ==
    Init /\ [][NextSlow]_vars /\ \A h \in Handlers : WF_vars(BroadcastSend(h))

\* One navigation and its reroutes, with time passing during the calls
NextCooldown ==
    \/ TickLong
    \/ \E h \in Handlers : Connect(h)
    \/ \E h \in Handlers : RecvLocation(h, P1)
    \/ \E h \in Handlers : RecvStartNav(h, P0, D1)
    \/ \E h \in Handlers, n \in RouteCounts(FALSE) : StartFetchOk(h, n)
    \/ \E h \in Handlers, n \in RouteCounts(FALSE) : RerouteFetchOk(h, n)
    \/ \E h \in Handlers, e \in Errors : RerouteFetchFail(h, e)
    \/ \E h \in Handlers : BroadcastSend(h)

SpecCooldown == Init /\ [][NextCooldown]_vars

\* fetch_route returns or raises: the request is made with timeout=30, so an
\* engine that does not answer makes it raise
FetchReturns(h) ==
    \/ \E n \in RouteCounts(FALSE) : StartFetchOk(h, n) \/ RerouteFetchOk(h, n)
    \/ \E e \in Errors : StartFetchFail(h, e) \/ RerouteFetchFail(h, e)

\* One navigation and its reroutes with calls that end, sends that end unless
\* the receiving client has stopped reading, and handlers that the event
\* loop resumes
NextLive ==
    \/ Tick
    \/ \E c \in Handlers : ClientStall(c)
    \/ \E h \in Handlers : Connect(h)
    \/ \E h \in Handlers : RecvLocation(h, P1)
    \/ \E h \in Handlers : RecvStartNav(h, P0, D1)
    \/ \E h \in Handlers, n \in RouteCounts(FALSE) : StartFetchOk(h, n)
    \/ \E h \in Handlers, e \in Errors : StartFetchFail(h, e)
    \/ \E h \in Handlers, n \in RouteCounts(FALSE) : RerouteFetchOk(h, n)
    \/ \E h \in Handlers, e \in Errors : RerouteFetchFail(h, e)
    \/ \E h \in Handlers : BroadcastSend(h)
    \/ \E h \in Handlers : ReplySent(h)

SpecLive ==
    /\ Init
    /\ [][NextLive]_vars
    /\ \A h \in Handlers :
          /\ WF_vars(FetchReturns(h))
          /\ WF_vars(BroadcastSend(h))
          /\ WF_vars(ReplySent(h))

\* Navigations and reroutes with an engine that may answer with no route
NextEmpty ==
    \/ Tick
    \/ \E h \in Handlers : Connect(h)
    \/ \E h \in Handlers : RecvLocation(h, P1)
    \/ \E h \in Handlers, d \in Dests : RecvStartNav(h, P0, d)
    \/ \E h \in Handlers, n \in RouteCountsOrNone(FALSE) : StartFetchOk(h, n)
    \/ \E h \in Handlers, n \in RouteCountsOrNone(FALSE) : RerouteFetchOk(h, n)
    \/ \E h \in Handlers : BroadcastSend(h)

SpecEmpty == Init /\ [][NextEmpty]_vars

\* Messages that are none of the three requests, read while a navigation is
\* started and its events are sent
NextMessages ==
    \/ \E h \in Handlers : Connect(h)
    \/ \E h \in Handlers : RecvInvalidJSON(h)
    \/ \E h \in Handlers : RecvNotObject(h)
    \/ \E h \in Handlers : RecvUnknown(h)
    \/ \E h \in Handlers : ReplySent(h)
    \/ \E h \in Handlers : RecvStartNav(h, P0, D1)
    \/ \E h \in Handlers, n \in RouteCounts(FALSE) : StartFetchOk(h, n)
    \/ \E h \in Handlers : BroadcastSend(h)

SpecMessages == Init /\ [][NextMessages]_vars

\* GET /route requests answered while handlers start and stop navigations
NextQuery ==
    \/ \E h \in Handlers : Connect(h)
    \/ \E h \in Handlers, s \in Starts, d \in Dests : RecvStartNav(h, s, d)
    \/ \E h \in Handlers, n \in RouteCounts(TRUE) : StartFetchOk(h, n)
    \/ \E h \in Handlers, e \in Errors : StartFetchFail(h, e)
    \/ \E h \in Handlers : RecvStopNav(h)
    \/ \E h \in Handlers : BroadcastSend(h)
    \/ \E h \in Handlers : ReplySent(h)
    \/ \E s \in Starts, d \in Dests, alternatives \in BOOLEAN,
          n \in RouteCounts(TRUE) : get_route_Ok(s, d, alternatives, n)
    \/ \E e \in Errors : get_route_Fail(e)

SpecQuery == Init /\ [][NextQuery]_vars

\* The traffic annotation alone: every hour of the day, every duration
NextTraffic == \E hr \in Hours, duration_s \in Durations : ApplyTraffic(hr, duration_s)

SpecTraffic == Init /\ [][NextTraffic]_vars

\* The deviation check alone, on every sample and every polyline of the grid
InitDeviation ==
    /\ nav_session = NewSession
    /\ active = <<>>
    /\ hs = [h \in Handlers |-> Local("new")]
    /\ open = [h \in Handlers |-> TRUE]
    /\ now = StartTime
    /\ lastRerouteCall = None
    /\ slow = {}
    /\ hour = 0
    /\ traffic = None
    /\ \E pt \in GridPoints, geometry_coords \in Polylines :
          geo = <<DeviationInput(pt[2], pt[1], geometry_coords)>>
    /\ hav = None
    /\ resp = None

NextDeviation == CheckDeviation

SpecDeviation == InitDeviation /\ [][NextDeviation]_vars

\* The deviation check alone, on the polylines of no point up to three
InitPolyline ==
    /\ nav_session = NewSession
    /\ active = <<>>
    /\ hs = [h \in Handlers |-> Local("new")]
    /\ open = [h \in Handlers |-> TRUE]
    /\ now = StartTime
    /\ lastRerouteCall = None
    /\ slow = {}
    /\ hour = 0
    /\ traffic = None
    /\ \E pt \in GridPoints, geometry_coords \in ShortPolylines \cup Polylines :
          geo = <<DeviationInput(pt[2], pt[1], geometry_coords)>>
    /\ hav = None
    /\ resp = None

NextPolyline == CheckDeviation

SpecPolyline == InitPolyline /\ [][NextPolyline]_vars

\* haversine alone, on every pair of places
InitHaversine ==
    /\ nav_session = NewSession
    /\ active = <<>>
    /\ hs = [h \in Handlers |-> Local("new")]
    /\ open = [h \in Handlers |-> TRUE]
    /\ now = StartTime
    /\ lastRerouteCall = None
    /\ slow = {}
    /\ hour = 0
    /\ traffic = None
    /\ geo = None
    /\ \E A \in Places, B \in Places : hav = <<HaversineInput(A, B)>>
    /\ resp = None

NextHaversine == CallHaversine

SpecHaversine == InitHaversine /\ [][NextHaversine]_vars

-----------------------------------------------------------------------------
(* Properties of the navigation session *)

Idle(s) == s.destination = None /\ s.route_geometry = None /\ s.route_data = None
Navigating(s) ==
    s.destination # None /\ s.route_geometry # None /\ s.route_data # None
InFlight(h) == hs[h].pc \in {"start_fetch", "reroute_fetch"}

\* C1: in every reachable state the active route (route_geometry,
\* route_data) is set if and only if the destination is set.
C1_RouteIffDestination ==
    /\ (nav_session.route_data # None) <=> (nav_session.destination # None)
    /\ (nav_session.route_geometry # None) <=> (nav_session.destination # None)

\* C2: when the fetch_route call of a start_nav read in an Idle session
\* fails, the session is Idle afterwards and an error goes to the requesting
\* connection.  (The antecedent takes the states where nothing but this
\* request's own write separates the session from Idle.)
C2_FailedStartLeavesIdle ==
    [][\A h \in Handlers, e \in Errors :
          (/\ StartFetchFail(h, e)
           /\ hs[h].idle0
           /\ nav_session.route_data = None
           /\ nav_session.route_geometry = None
           /\ nav_session.destination = hs[h].dest)
          => /\ Idle(nav_session')
             /\ hs'[h].pc = "reply"
             /\ hs'[h].detail = e]_vars

\* C3: the step in which a reroute's fetch_route call fails changes no field
\* of the session: destination and active route are what they were, a
\* Navigating session stays Navigating, and the handler goes on to its next
\* message.
C3_FailedRerouteKeepsRoute ==
    [][\A h \in Handlers, e \in Errors :
          RerouteFetchFail(h, e)
          => /\ nav_session'.destination = nav_session.destination
             /\ nav_session'.route_geometry = nav_session.route_geometry
             /\ nav_session'.route_data = nav_session.route_data
             /\ nav_session'.last_recalc = nav_session.last_recalc
             /\ (Navigating(nav_session) => Navigating(nav_session'))
             /\ hs'[h].pc = "recv"]_vars

\* C3 witness: a reroute has just failed in a handler and the session is
\* Navigating on the route it had.
C3_Witness ==
    \E h \in Handlers, e \in Errors :
        /\ hs[h].pc = "recv"
        /\ hs[h].printed = <<"reroute failed", e>>
        /\ Navigating(nav_session)

\* C4: whenever a reroute's fetch_route call fails, the handler broadcasts an
\* event of type error.
C4_FailedRerouteBroadcastsError ==
    [][\A h \in Handlers, e \in Errors :
          (RerouteFetchFail(h, e) /\ active # <<>>)
          => /\ hs'[h].pc = "bsend"
             /\ hs'[h].bmsg.type = "error"]_vars

\* C5: a reroute fetch_route call never begins less than the cooldown after
\* the previous reroute call of the same navigation began.
C5_Debounce ==
    [][\A h \in Handlers :
          (hs[h].pc # "reroute_fetch" /\ hs'[h].pc = "reroute_fetch"
           /\ lastRerouteCall # None)
          => now - lastRerouteCall[1] >= RECALC_COOLDOWN_S]_vars

\* C6: at most one handler is suspended in a reroute's fetch_route call.
C6_OneRerouteInFlight ==
    Cardinality({h \in Handlers : hs[h].pc = "reroute_fetch"}) <= 1

\* C7: a fetch_route result that arrives after a stop_nav cleared the session
\* is discarded: the session stays as the stop left it and the handler
\* broadcasts nothing.  (Every call begins with the destination set and only
\* clear() unsets it, so a call in flight with no destination was stopped.)
C7_ResultAfterStopDiscarded ==
    [][\A h \in Handlers :
          (/\ \/ \E n \in RouteCounts(FALSE) : RerouteFetchOk(h, n)
              \/ \E n \in RouteCounts(TRUE) : StartFetchOk(h, n)
           /\ Idle(nav_session))
          => /\ Idle(nav_session')
             /\ hs'[h].pc # "bsend"]_vars

\* the route stored in the session was computed for the session's destination
RouteForDestination(s) ==
    /\ s.route_data # None
    /\ s.destination # None
    /\ s.route_data[1].waypoints[2] = <<s.destination[2], s.destination[1]>>

\* C8: a reroute result computed for a destination the session has since
\* left never replaces the active route computed for the new destination.
C8_StaleRerouteNotCommitted ==
    [][\A h \in Handlers, n \in RouteCounts(FALSE) :
          (/\ RerouteFetchOk(h, n)
           /\ RouteForDestination(nav_session)
           /\ hs[h].dest # nav_session.destination)
          => /\ nav_session'.route_data = nav_session.route_data
             /\ nav_session'.route_geometry = nav_session.route_geometry]_vars

\* C9: a handler waiting for a message can process stop_nav whatever the
\* other handlers are suspended in, and the step leaves the session with
\* destination and active route unset.
C9_StopAlwaysIdles ==
    /\ [](\A h \in Handlers : hs[h].pc = "recv" => ENABLED RecvStopNav(h))
    /\ [][\A h \in Handlers : RecvStopNav(h) => Idle(nav_session')]_vars

\* C9 witness: stop_nav has been processed (its nav_stopped broadcast is
\* under way) while another handler's fetch_route call is still in flight.
C9_Witness ==
    \E h, g \in Handlers :
        /\ hs[h].pc = "bsend"
        /\ hs[h].bmsg.type = "nav_stopped"
        /\ hs[h].bidx = 1
        /\ InFlight(g)
        /\ Idle(nav_session)

\* C10: stopping twice in a row is stopping once: clear() applied to the
\* session a clear() left gives that same Idle session, and a stop_nav
\* processed in an Idle session changes no field of it and goes on to the
\* nav_stopped broadcast, not to an error.
C10_StopIdempotent ==
    /\ [](/\ Idle(clear(nav_session))
          /\ clear(clear(nav_session)) = clear(nav_session))
    /\ [][\A h \in Handlers :
             (RecvStopNav(h) /\ Idle(nav_session))
             => /\ nav_session' = nav_session
                /\ hs'[h].pc \in {"bsend", "recv"}
                /\ hs'[h].pc = "bsend" => hs'[h].bmsg.type = "nav_stopped"]_vars

\* C10 witness: two stop_nav in a row: both handlers are in their
\* nav_stopped broadcast, the second one begun, and the session is Idle.
C10_Witness ==
    /\ \A h \in Handlers :
          /\ hs[h].pc = "bsend"
          /\ hs[h].bmsg.type = "nav_stopped"
    /\ \E h \in Handlers : hs[h].bidx = 1
    /\ Idle(nav_session)

-----------------------------------------------------------------------------
(* Properties of the connection manager *)

\* the step in which handler h's broadcast returns or raises
BroadcastEnds(h) == hs[h].pc = "bsend" /\ hs'[h].pc # "bsend"

\* the handler's broadcast raised: the exception ended the handler, or was
\* caught at line 157 or line 174
Raised(l) ==
    \/ l.pc = "crashed"
    \/ l.pc = "reply" /\ l.detail = "ValueError"
    \/ l.printed = <<"reroute failed", "ValueError">>

\* C11: manager.disconnect on a connection that is no longer in the list (a
\* broadcast pruned it) raises no error and leaves the list unchanged: the
\* handler that sees its client gone ends normally.
C11_DisconnectIdempotent ==
    [][\A h \in Handlers :
          (RecvDisconnect(h) /\ h \notin Range(active))
          => /\ active' = active
             /\ hs'[h].pc = "closed"]_vars

\* C12: the step that ends a broadcast removes from the list exactly the
\* connections whose send failed during it, and the broadcast does not
\* raise, whatever the other handlers' broadcasts removed meanwhile.
C12_BroadcastPrunesFailed ==
    [][\A h \in Handlers :
          BroadcastEnds(h)
          => LET failed == Range(hs[h].dead) \cup
                           (IF open[hs[h].bto] THEN {} ELSE {hs[h].bto})
             IN  /\ Range(active') = Range(active) \ failed
                 /\ ~Raised(hs'[h])]_vars

\* C13: when a broadcast ends, every connection that was in the list when it
\* began and has not been removed since has had its send_text called.
C13_EveryAttachedGetsSend ==
    [][\A h \in Handlers :
          BroadcastEnds(h)
          => \A c \in hs[h].snap \cap Range(active) :
                c \in hs[h].sent \cup {hs[h].bto}]_vars

\* C14: a client that never reads does not hold the others up: a handler
\* that is broadcasting eventually leaves the broadcast (and reads its next
\* message), and every other attached live connection that reads has the
\* event sent to it before that.
C14_SlowConsumerDoesNotBlock ==
    /\ \A h \in Handlers : (hs[h].pc = "bsend") ~> (hs[h].pc # "bsend")
    /\ \A h, c \in Handlers :
          (hs[h].pc = "bsend" /\ c \in Range(active) /\ open[c] /\ c \notin slow)
          ~> \/ hs[h].pc = "bsend" /\ c \in hs[h].sent
             \/ ~open[c]
             \/ c \notin Range(active)

-----------------------------------------------------------------------------
(* Properties of the message handling *)

\* C15: a location or start_nav message with a required coordinate missing
\* is answered with an error sent to its sender, and changes no field of the
\* session.
C15_MalformedGetsError ==
    [][\A h \in Handlers :
          (RecvLocationMissing(h) \/ RecvStartNavMissing(h))
          => /\ hs'[h].pc = "reply"
             /\ hs'[h].detail # ""
             /\ nav_session' = nav_session]_vars

\* C16: a location message read while the session is Idle is relayed as a
\* location event and changes no field of the session; when its relay ends,
\* the session still Idle, the handler is back at receive_text: it has begun
\* no fetch_route call and has not ended.
C16_LocationWhileIdle ==
    [][\A h \in Handlers :
          /\ \A pt \in Samples :
                (RecvLocation(h, pt) /\ Idle(nav_session))
                => /\ nav_session' = nav_session
                   /\ \/ hs'[h].pc = "bsend" /\ hs'[h].bmsg.type = "location"
                      \/ hs'[h].pc = "recv" /\ active = <<>>
          /\ (BroadcastEnds(h) /\ hs[h].bmsg.type = "location"
                /\ Idle(nav_session))
             => /\ nav_session' = nav_session
                /\ hs'[h].pc = "recv"]_vars

\* the step in which handler h's broadcast calls send_text of connection c
SendsTo(h, c) ==
    /\ hs'[h].pc = "bsend"
    /\ hs'[h].bto = c
    /\ hs[h].pc # "bsend" \/ hs'[h].bidx # hs[h].bidx

\* handler g's broadcast has called send_text of connection c
HasSentTo(g, c) == hs[g].pc = "bsend" /\ c \in hs[g].sent \cup {hs[g].bto}

\* C17: a reroute event is sent only once its route is the session's route,
\* and every connection is sent the reroute events in the order of their
\* commits: when a broadcast sends a reroute event to a connection, no
\* broadcast of a reroute committed later (its route, not this one, is the
\* session's) has sent to that connection already.
C17_RerouteAfterCommitInOrder ==
    [][\A h \in Handlers :
          /\ (\E n \in RouteCounts(FALSE) : RerouteFetchOk(h, n))
             => (hs'[h].pc = "bsend"
                   => nav_session'.route_data = hs'[h].bmsg.route)
          /\ \A c \in Handlers :
                (SendsTo(h, c) /\ hs'[h].bmsg.type = "reroute")
                => ~ \E g \in Handlers \ {h} :
                        /\ HasSentTo(g, c)
                        /\ hs[g].bmsg.type = "reroute"
                        /\ hs[g].bmsg.route # hs'[h].bmsg.route
                        /\ nav_session'.route_data = hs[g].bmsg.route]_vars

\* C18: a reroute call begins only for a sample off the route of a session
\* with a destination, past the cooldown; the step in which the call returns
\* n routes stores the result as the session's route_data and its primary
\* route's geometry as route_geometry, with nothing of the old route left
\* and the destination as it was, and starts the broadcast of a reroute
\* event with reason off_route that carries the result.
C18_RerouteReplacesRoute ==
    /\ [][\A h \in Handlers :
             (hs[h].pc # "reroute_fetch" /\ hs'[h].pc = "reroute_fetch")
             => ShouldReroute(nav_session, hs'[h].lat_lng[1],
                              hs'[h].lat_lng[2], now)]_vars
    /\ [][\A h \in Handlers, n \in RouteCounts(FALSE) :
             RerouteFetchOk(h, n)
             => LET l == hs[h]
                    new_route == fetch_route(l.lat_lng[1], l.lat_lng[2],
                                             l.dest[1], l.dest[2], n)
                IN  /\ nav_session'.route_data = <<new_route>>
                    /\ nav_session'.route_geometry
                          = new_route.routes[1].geometry.coordinates
                    /\ nav_session'.route_geometry[1]
                          = <<l.lat_lng[2], l.lat_lng[1]>>
                    /\ nav_session'.last_recalc = now
                    /\ nav_session'.destination = nav_session.destination
                    /\ active # <<>>
                       => /\ hs'[h].pc = "bsend"
                          /\ hs'[h].bmsg = [type |-> "reroute",
                                            reason |-> "off_route",
                                            route |-> <<new_route>>]
                          /\ hs'[h].bto = active[1]
                          /\ hs'[h].snap = Range(active)]_vars

\* C18 witness: a reroute has replaced the route of a Navigating session (the
\* new geometry begins at the off-route sample, not at the start the first
\* route began at) and its reroute event is being broadcast.
C18_Witness ==
    \E h \in Handlers :
        /\ hs[h].pc = "bsend"
        /\ hs[h].bmsg.type = "reroute"
        /\ hs[h].bmsg.reason = "off_route"
        /\ hs[h].bidx = 1
        /\ Navigating(nav_session)
        /\ nav_session.route_data = hs[h].bmsg.route
        /\ nav_session.route_geometry[1] = <<P1[2], P1[1]>>
        /\ nav_session.route_geometry[1] # <<P0[2], P0[1]>>

\* what the step in which handler h's start_nav call returns n routes stores
\* and announces: the result as route_data, its primary route's geometry as
\* route_geometry, and a route_update event carrying the result
StartCommits(h, n) ==
    LET l == hs[h]
        route == fetch_route(l.start[1], l.start[2], l.dest[1], l.dest[2], n)
    IN  /\ nav_session'.route_data = <<route>>
        /\ nav_session'.route_geometry = route.routes[1].geometry.coordinates
        /\ nav_session'.last_recalc = now
        /\ active # <<>>
           => /\ hs'[h].pc = "bsend"
              /\ hs'[h].bmsg = [type |-> "route_update", reason |-> "",
                                route |-> <<route>>]
              /\ hs'[h].bto = active[1]
              /\ hs'[h].snap = Range(active)

-----------------------------------------------------------------------------
(* Properties of the traffic annotation *)

\* the multiplier the schedule gives hour h, in tenths
ScheduledMultiplier(h) ==
    IF h \in 8 .. 9 THEN 6
    ELSE IF h \in 17 .. 19 THEN 5
    ELSE IF h >= 22 \/ h <= 4 THEN 12
    ELSE 10

\* C20: for every hour 0..23 the traffic multiplier is 0.6 from 8 to 9, 0.5
\* from 17 to 19, 1.2 from 22 on and up to 4, and 1.0 otherwise (so at 10, at
\* 5 and at 20); every annotation carries the multiplier of its hour.
C20_MultiplierSchedule ==
    /\ \A h \in Hours : _traffic_multiplier(h) = ScheduledMultiplier(h)
    /\ _traffic_multiplier(10) = 10
    /\ _traffic_multiplier(5) = 10
    /\ _traffic_multiplier(20) = 10
    /\ traffic # None
       => traffic[1].traffic_multiplier = ScheduledMultiplier(hour)

\* C20 witness: a route was annotated at ten o'clock, with multiplier 1.0
C20_Witness ==
    /\ hour = 10
    /\ traffic # None
    /\ traffic[1].traffic_multiplier = 10

\* the label the traffic table gives hour h
ScheduledLabel(h) ==
    IF h \in 8 .. 9 \/ h \in 17 .. 19 THEN "heavy"
    ELSE IF h >= 22 \/ h <= 4 THEN "free-flow"
    ELSE "light"

\* C21: the label of every annotation is the one the traffic table gives its
\* hour: heavy at 8-9 and 17-19, free-flow at 22-23 and 0-4, light otherwise.
C21_LabelSchedule ==
    traffic # None => traffic[1].traffic_label = ScheduledLabel(hour)

\* the label the thresholds give multiplier m (in tenths)
ThresholdLabel(m) ==
    IF m < 6 THEN "heavy"
    ELSE IF 6 <= m /\ m < 10 THEN "moderate"
    ELSE IF m = 10 THEN "light"
    ELSE "free-flow"

\* C22: the label of every annotation is the one the thresholds give its
\* multiplier, whatever the hour and the duration: below 0.6 heavy, from 0.6
\* and below 1.0 moderate, 1.0 light, above 1.0 free-flow.
C22_LabelThresholds ==
    /\ traffic # None
       => traffic[1].traffic_label = ThresholdLabel(traffic[1].traffic_multiplier)
    /\ \A hr \in Hours, d \in Durations :
          _apply_traffic(d, hr).traffic_label
             = ThresholdLabel(_traffic_multiplier(hr))

\* C22 witness: a route annotated with the multiplier 0.6, at the first
\* threshold, is labelled moderate
C22_Witness ==
    /\ traffic # None
    /\ traffic[1].traffic_multiplier = 6
    /\ traffic[1].traffic_label = "moderate"

-----------------------------------------------------------------------------
(* Properties of the deviation check *)

\* the point p lies on the segment from a to b (all [lon, lat]); a segment
\* whose ends coincide holds that one point
OnSegment(p, a, b) ==
    /\ (b[1] - a[1]) * (p[2] - a[2]) = (b[2] - a[2]) * (p[1] - a[1])
    /\ (a[1] <= p[1] /\ p[1] <= b[1]) \/ (b[1] <= p[1] /\ p[1] <= a[1])
    /\ (a[2] <= p[2] /\ p[2] <= b[2]) \/ (b[2] <= p[2] /\ p[2] <= a[2])

OnPolyline(lat, lng, g) ==
    \E i \in 1 .. Len(g) - 1 : OnSegment(<<lng, lat>>, g[i], g[i + 1])

\* C23: a sample that lies on a segment of the polyline (an end of it, or a
\* point of a segment whose ends coincide, included) is not off the route.
C23_OnRouteNotOff ==
    (geo # None /\ geo[1].done /\ OnPolyline(geo[1].lat, geo[1].lng, geo[1].geometry_coords))
    => ~geo[1].off

\* C23 witness: the check was done on a sample strictly inside the second
\* segment of a three-point polyline, more than 50 m from both its ends
C23_Witness ==
    /\ geo # None
    /\ geo[1].done
    /\ geo[1].geometry_coords = << <<0, 8>>, <<0, 0>>, <<8, 8>> >>
    /\ geo[1].lat = 4
    /\ geo[1].lng = 4
    /\ ~geo[1].off

\* C24: the check answers off the route exactly when the minimum distance
\* (geo[1].d is its square, a fraction) is more than 50 m; at exactly 50 m
\* it answers not off.
C24_OffIffBeyondThreshold ==
    (geo # None /\ geo[1].done)
    => LET d == geo[1].d
           limit == DEVIATION_THRESHOLD_M * DEVIATION_THRESHOLD_M
       IN  /\ d[2] > 0
           /\ d = min_distance_to_route(geo[1].lat, geo[1].lng,
                                        geo[1].geometry_coords)
           /\ geo[1].off <=> (d[1] > limit * d[2])
           /\ (d[1] = limit * d[2]) => ~geo[1].off

\* C24 witness: the check was done on a sample exactly 50 m from the route
C24_Witness ==
    /\ geo # None
    /\ geo[1].done
    /\ geo[1].d[1] = DEVIATION_THRESHOLD_M * DEVIATION_THRESHOLD_M * geo[1].d[2]
    /\ ~geo[1].off

-----------------------------------------------------------------------------
(* Properties of the one-shot route query *)

\* C25: the step that answers a GET /route request, with routes or with an
\* error, changes no field of the session, leaves the list of connections
\* as it was and starts no broadcast (no handler moves).
C25_QueryHasNoSideEffects ==
    [][(\/ \E s \in Starts, d \in Dests, alternatives \in BOOLEAN,
              n \in RouteCounts(TRUE) : get_route_Ok(s, d, alternatives, n)
        \/ \E e \in Errors : get_route_Fail(e))
       => /\ nav_session' = nav_session
          /\ active' = active
          /\ hs' = hs]_vars

\* C25 witness: a query was answered with a route to a destination that is
\* not the one of the Navigating session, whose route is still its own
C25_Witness ==
    /\ resp # None
    /\ "routes" \in DOMAIN resp[1]
    /\ Navigating(nav_session)
    /\ RouteForDestination(nav_session)
    /\ resp[1].waypoints[2] # <<nav_session.destination[2], nav_session.destination[1]>>
    /\ \E h \in Handlers : hs[h].pc = "bsend"

-----------------------------------------------------------------------------
(* Properties of the error reporting *)

\* C26: whichever way fetch_route fails, for a start_nav or for a reroute,
\* the handler goes on to send an error event whose detail names the kind
\* of the failure, so that the two kinds can be told apart.
C26_FailureKindReported ==
    [][\A h \in Handlers, e \in Errors :
          (StartFetchFail(h, e) \/ RerouteFetchFail(h, e))
          => /\ hs'[h].pc = "reply"
             /\ hs'[h].detail = e]_vars

-----------------------------------------------------------------------------
(* Properties of the membership *)

\* the connections whose send failed during the broadcast of handler h that
\* is about to end
FailedSends(h) ==
    Range(hs[h].dead) \cup (IF open[hs[h].bto] THEN {} ELSE {hs[h].bto})

\* C27: once a handler has seen its client's disconnect its connection is
\* not in the list, and once a broadcast has ended no connection whose send
\* failed during it is in the list.
C27_GoneMeansNotMember ==
    [][\A h \in Handlers :
          /\ RecvDisconnect(h) => h \notin Range(active')
          /\ BroadcastEnds(h)
             => \A c \in FailedSends(h) : c \notin Range(active')]_vars

-----------------------------------------------------------------------------
(* Properties of haversine *)

\* C28: the distance from A to B is the distance from B to A, and the
\* distance from A to A is 0.
C28_HaversineSymmetric ==
    (hav # None /\ hav[1].done)
    => /\ hav[1].ab = hav[1].ba
       /\ hav[1].aa = 0
       /\ hav[1].A = hav[1].B => hav[1].ab = 0

\* C28 witness: the distance was measured both ways between two places of
\* different latitudes and longitudes, and is not 0
C28_Witness ==
    /\ hav # None
    /\ hav[1].done
    /\ hav[1].A = <<0, 0>>
    /\ hav[1].B = <<60, 60>>
    /\ hav[1].ab > 0
    /\ hav[1].ab = hav[1].ba

-----------------------------------------------------------------------------
(* Properties of the cooldown *)

\* the step in which handler h's relay of the location sample pt has
\* returned or raised, or had no connection to send to: the step of the
\* deviation check
SampleProcessed(h, pt) ==
    \/ BroadcastEnds(h) /\ hs[h].bmsg.type = "location" /\ hs[h].lat_lng = pt
    \/ RecvLocation(h, pt) /\ active = <<>>

\* C29: when a sample off the route of a Navigating session with no reroute
\* call in flight has been relayed, the handler begins a reroute call in that
\* same step if more than RECALC_COOLDOWN_S seconds have passed since
\* last_recalc, and begins none otherwise.
C29_CooldownIsDebounce ==
    [][\A h \in Handlers, pt \in Samples :
          (/\ SampleProcessed(h, pt)
           /\ Navigating(nav_session)
           /\ \A g \in Handlers : hs[g].pc # "reroute_fetch"
           /\ is_off_route(pt[1], pt[2], nav_session.route_geometry))
          => IF now - nav_session.last_recalc > RECALC_COOLDOWN_S
             THEN hs'[h].pc = "reroute_fetch" /\ hs'[h].lat_lng = pt
             ELSE hs'[h].pc # "reroute_fetch"]_vars

\* C30: the cooldown runs from the beginning of the attempt: the
\* last_recalc a successful reroute records is the time its call began, so
\* it is never later than the time the latest reroute call began.
C30_CooldownFromAttemptStart ==
    [][\A h \in Handlers, n \in RouteCounts(FALSE) :
          (RerouteFetchOk(h, n) /\ lastRerouteCall # None)
          => nav_session'.last_recalc <= lastRerouteCall[1]]_vars

-----------------------------------------------------------------------------
(* Properties of the retries *)

\* handler h's latest reroute call failed with e, and h has read no message
\* since
JustFailed(h, e) == hs[h].pc = "recv" /\ hs[h].printed = <<"reroute failed", e>>

\* the step in which handler g begins a reroute's fetch_route call
RerouteBegins(g) == hs[g].pc # "reroute_fetch" /\ hs'[g].pc = "reroute_fetch"

\* C31: within one navigation (a reroute call has begun since the last
\* start_nav or stop_nav), while a handler's reroute has just failed with
\* NoRoute no other reroute call begins, and while it has just failed with
\* Unavailable a reroute call begins only at a later time than the latest
\* call began.
C31_FailedRerouteNotRetried ==
    [][\A g, h \in Handlers :
          (g # h /\ RerouteBegins(g) /\ lastRerouteCall # None)
          => /\ ~JustFailed(h, "NoRoute")
             /\ JustFailed(h, "Unavailable") => now > lastRerouteCall[1]]_vars

-----------------------------------------------------------------------------
(* Properties of the reroute call *)

\* C32: every reroute call is begun by the deviation check of a sample, from
\* that sample's position to the destination the session has in that step;
\* the result the call returns runs from that position to that destination
\* (whatever the session's destination has become) and holds one route, the
\* primary one, which is what the session then stores.
C32_RerouteCallArguments ==
    /\ [][\A h \in Handlers :
             RerouteBegins(h)
             => /\ \E pt \in Samples : SampleProcessed(h, pt)
                /\ \A pt \in Samples :
                      SampleProcessed(h, pt) => hs'[h].lat_lng = pt
                /\ nav_session.destination # None
                /\ hs'[h].dest = nav_session.destination]_vars
    /\ [][\A h \in Handlers, n \in RouteCounts(FALSE) :
             RerouteFetchOk(h, n)
             => LET r == nav_session'.route_data[1]
                IN  /\ r.waypoints[1] = <<hs[h].lat_lng[2], hs[h].lat_lng[1]>>
                    /\ r.waypoints[2] = <<hs[h].dest[2], hs[h].dest[1]>>
                    /\ Len(r.routes) = 1
                    /\ ~r.routes[1].is_alternative]_vars

\* C32 witness: the result of a reroute call from the sample P1 to the
\* destination D2 is the session's route: one route, not an alternative
C32_Witness ==
    \E h \in Handlers :
        /\ hs[h].pc = "bsend"
        /\ hs[h].bmsg.type = "reroute"
        /\ nav_session.route_data = hs[h].bmsg.route
        /\ nav_session.destination = D2
        /\ LET r == nav_session.route_data[1]
           IN  /\ r.waypoints = << <<P1[2], P1[1]>>, <<D2[2], D2[1]>> >>
               /\ Len(r.routes) = 1
               /\ ~r.routes[1].is_alternative

-----------------------------------------------------------------------------
(* Properties of the calls' termination *)

\* C33: every fetch_route call a start_nav or a reroute began ends, and the
\* handler that made it comes back to receive_text for its next message.
C33_CallEndsHandlerReadsOn ==
    \A h \in Handlers :
        /\ InFlight(h) ~> ~InFlight(h)
        /\ InFlight(h) ~> (hs[h].pc = "recv")

-----------------------------------------------------------------------------
(* Properties of the distance to a polyline *)

\* the squared distance in metres from the sample to the i-th segment of g
SegmentMetres(lat, lng, g, i) ==
    LET d == _point_to_segment(lng, lat, g[i][1], g[i][2], g[i + 1][1], g[i + 1][2])
    IN  <<d[1] * MetresPerUnit * MetresPerUnit, d[2]>>

-----------------------------------------------------------------------------
(* Properties of the pairing of route and destination *)

\* C35: whenever the session has a destination and a route, the route is one
\* computed for that destination (it ends there).
C35_RouteMatchesDestination ==
    (nav_session.destination # None /\ nav_session.route_data # None)
    => RouteForDestination(nav_session)

-----------------------------------------------------------------------------
(* Properties of the stopped session *)

\* C36: a stop_nav leaves the session without destination, only a start_nav
\* gives it one again, and while it has none no handler begins a reroute
\* call, whatever route a call that was in flight has stored meanwhile.
C36_NoRerouteWhileStopped ==
    /\ [][\A h \in Handlers : RecvStopNav(h) => nav_session'.destination = None]_vars
    /\ [][(nav_session.destination = None /\ nav_session'.destination # None)
          => \E h \in Handlers, s \in Starts, d \in Dests : RecvStartNav(h, s, d)]_vars
    /\ [][\A h \in Handlers :
             nav_session.destination = None => ~RerouteBegins(h)]_vars

\* C36 witness: after a stop_nav the result of a call that was in flight has
\* been stored, more than the cooldown ago; the relay of a sample off that
\* route is at its last send, and the deviation check that follows it sends
\* the handler back to receive_text
C36_Witness ==
    \E h \in Handlers :
        /\ nav_session.destination = None
        /\ nav_session.route_geometry # None
        /\ now - nav_session.last_recalc > RECALC_COOLDOWN_S
        /\ hs[h].pc = "bsend"
        /\ hs[h].bmsg.type = "location"
        /\ hs[h].bidx = Len(active)
        /\ hs[h].dead = <<>>
        /\ open[hs[h].bto]
        /\ is_off_route(hs[h].lat_lng[1], hs[h].lat_lng[2], nav_session.route_geometry)
        /\ AfterBroadcast(hs[h], hs[h].bmsg, nav_session, now).pc = "recv"

-----------------------------------------------------------------------------
(* Properties of set_route *)

\* C37: after the step in which a call's result is stored, route_geometry is
\* the geometry of the first route of the stored route_data, and is unset
\* when the stored route_data has no route.
C37_GeometryOfStoredRoute ==
    [][\A h \in Handlers, n \in RouteCountsOrNone(FALSE) :
          (StartFetchOk(h, n) \/ RerouteFetchOk(h, n))
          => LET r == nav_session'.route_data[1]
             IN  IF Len(r.routes) > 0
                 THEN nav_session'.route_geometry = r.routes[1].geometry.coordinates
                 ELSE nav_session'.route_geometry = None]_vars

-----------------------------------------------------------------------------
(* Properties of the cooldown after a start *)

-----------------------------------------------------------------------------
(* Properties of the messages that are no request *)

\* the step in which handler h reads a message that is not JSON, or is JSON
\* with a type that is none of location, start_nav and stop_nav, or with no
\* type at all
RecvNoRequest(h) == RecvInvalidJSON(h) \/ RecvUnknown(h) \/ RecvNotObject(h)

\* C39: reading such a message takes the handler to an error reply on its own
\* connection and changes nothing else: not the session, not the list of
\* connections, not any other handler (no broadcast begins); and once the
\* reply is sent the handler is back at receive_text.
C39_NoRequestGetsErrorOnly ==
    [][\A h \in Handlers :
          /\ RecvNoRequest(h)
             => /\ hs'[h].pc = "reply"
                /\ hs'[h].detail \in {"invalid JSON", "unknown type"}
                /\ nav_session' = nav_session
                /\ active' = active
                /\ \A g \in Handlers \ {h} : hs'[g] = hs[g]
          /\ ReplySent(h) => hs'[h].pc = "recv"]_vars

=============================================================================
